---- MODULE Spec2Model ----
(***************************************************************************)
(* The account manager IBMQFactory of                                      *)
(* src/qiskit/providers/ibmq/ibmqfactory.py as a state machine.            *)
(*                                                                         *)
(* State: the session (self._credentials, self._providers) and the         *)
(* credentials file on disk (qiskitrc).  One action per public method.     *)
(* The factory is single-threaded and synchronous, so a call is one step.  *)
(* The remote Version/Auth clients, the provider constructor and the       *)
(* credential resolver are external: what they answer (or that they raise) *)
(* is an input of the call.                                                *)
(*                                                                         *)
(* Python's Optional[X] is a sequence of length at most one:               *)
(* None is <<>> and a value x is <<x>>.                                    *)
(***************************************************************************)
EXTENDS Naturals, Sequences, FiniteSets, TLC

VARIABLES
    _credentials,   \* self._credentials : Optional[Credentials]
    _providers,     \* self._providers : OrderedDict, as a sequence of [key, provider]
    qiskitrc,       \* the stored credentials file : OrderedDict, as a sequence of Credentials
    last,           \* the last call: its name, arguments, outcome, value and remote calls
    enabled         \* history: enable_account returned and disable_account has not run since

vars == <<_credentials, _providers, qiskitrc, last, enabled>>

----------------------------------------------------------------------------
(* Bounds *)

MaxHubs == 3          \* longest hub list the Auth Client returns
MaxDiscovered == 2    \* most credentials the resolver discovers
MaxStored == 2        \* most credentials the file on disk holds at the start

----------------------------------------------------------------------------
(* Values *)

None == <<>>
Some(x) == <<x>>

QX_AUTH_URL == "https://auth.quantum-computing.ibm.com/api"
\* Other URLs a credential can carry: the legacy API without a hub, and two
\* legacy URLs that name a hub, group and project.
LEGACY_URL == "https://quantumexperience.ng.bluemix.net/api"
HUB_URL_1 == "https://q-console-api.mybluemix.net/api/Hubs/hub-1/Groups/g/Projects/p"
HUB_URL_2 == "https://q-console-api.mybluemix.net/api/Hubs/hub-2/Groups/g/Projects/p"
\* service_urls['http'] of the Auth Client.
SERVICE_URL == "https://api.quantum-computing.ibm.com/api"

\* The factory never reads the URL it is given: whether it is an
\* authentication URL is what the version endpoint answers (VersionInfos).
Tokens == {"tokA", "tokB"}
SessionUrls == {QX_AUTH_URL}

HubGroupProject(hub, group, project) == [hub |-> hub, group |-> group, project |-> project]

\* The hub, group and project a URL names, if it names them.
UrlScope(url) ==
    IF url = HUB_URL_1 THEN HubGroupProject(Some("hub-1"), Some("g"), Some("p"))
    ELSE IF url = HUB_URL_2 THEN HubGroupProject(Some("hub-2"), Some("g"), Some("p"))
    ELSE HubGroupProject(None, None, None)

\* Credentials(token, url, **kwargs): the connection options (proxies, verify)
\* are carried along and never read by the factory's decisions.
Credentials(token, url) == [token |-> token, url |-> url, hgp |-> UrlScope(url)]

\* credentials.unique_id()
unique_id(credentials) == credentials.hgp

SessionCredentials == {Credentials(t, u) : t \in Tokens, u \in SessionUrls}

Scopes == { HubGroupProject(Some("ibm-q"), Some("open"), Some("main")),
            HubGroupProject(Some("ibm-q"), Some("grp-x"), Some("lab")) }

\* One entry of auth_client.user_hubs(), with what building from it does:
\* "ok", "provider_error" (AccountProvider(...) or current_access_token()
\* raises, inside the try) or "credentials_error" (Credentials(...) raises,
\* outside the try).
HubInfos == [hgp : Scopes, build : {"ok", "provider_error", "credentials_error"}]

SeqUpTo(S, n) == UNION {[1..k -> S] : k \in 0..n}

\* The hub lists.  The loop stops at the first entry whose Credentials(...)
\* raises, so a list is given up to and including that entry.
UserHubs == {hs \in SeqUpTo(HubInfos, MaxHubs) :
                \A i \in 1..Len(hs) : hs[i].build = "credentials_error" => i = Len(hs)}

\* version_finder.version(): a dictionary, or the client raises.
VersionInfos == {[new_api |-> b] : b \in BOOLEAN}
                \cup {("new_api" :> b) @@ ("api-auth" :> "0.1") : b \in BOOLEAN}
VersionOutcomes == {[raised |-> TRUE]} \cup {[raised |-> FALSE, info |-> v] : v \in VersionInfos}

\* AuthClient(...), current_service_urls(), user_hubs(): the hub list, or one of them raises.
AuthOutcomes == {[raised |-> TRUE]} \cup {[raised |-> FALSE, user_hubs |-> hs] : hs \in UserHubs}

ValidVersion == [raised |-> FALSE, info |-> ("new_api" :> TRUE) @@ ("api-auth" :> "0.1")]

\* A remote side that answers nothing.
Unreachable == [version |-> [raised |-> TRUE], auth |-> [raised |-> TRUE]]

\* What the remote side does during one call.  The Auth Client is reached only
\* after the version answer passed the test of line 90/151, so an answer of
\* the Auth Client is drawn only then.
Servers == {[version |-> v, auth |-> a] : v \in {ValidVersion}, a \in AuthOutcomes}
           \cup {[version |-> v, auth |-> [raised |-> TRUE]] : v \in VersionOutcomes \ {ValidVersion}}

----------------------------------------------------------------------------
(* OrderedDict *)

Keys(od) == {od[i].key : i \in 1..Len(od)}

\* od[key] = value: in place when the key is present, else appended.
SetItem(od, key, value) ==
    IF key \in Keys(od)
    THEN [i \in 1..Len(od) |-> IF od[i].key = key THEN [key |-> key, provider |-> value] ELSE od[i]]
    ELSE Append(od, [key |-> key, provider |-> value])

----------------------------------------------------------------------------
(* The session object and what a call yields *)

Self == [_credentials |-> _credentials, _providers |-> _providers]

NewFactory == [_credentials |-> None, _providers |-> <<>>]

Raise(self, error, remote) ==
    [self |-> self, outcome |-> error, value |-> None, remote |-> remote]

Return(self, value, remote) ==
    [self |-> self, outcome |-> "ok", value |-> value, remote |-> remote]

----------------------------------------------------------------------------
(* Provider management *)

\* Variant: a filter counts as soon as it is not None.
Truthy_not_none(f) == f # None

\* Python truthiness of an Optional[str] filter.
Truthy(f) == f # None /\ f[1] # ""

FilterMatch(key, hub, group, project) ==
    /\ Truthy(hub) => key.hub = hub
    /\ Truthy(group) => key.group = group
    /\ Truthy(project) => key.project = project

RECURSIVE SelectProviders(_, _, _, _)
SelectProviders(items, hub, group, project) ==
    IF items = <<>> THEN <<>>
    ELSE LET rest == SelectProviders(Tail(items), hub, group, project) IN
         IF FilterMatch(Head(items).key, hub, group, project)
         THEN <<Head(items).provider>> \o rest
         ELSE rest

providers(self, hub, group, project) ==
    SelectProviders(self._providers, hub, group, project)

\* Variant: only three or more matches are ambiguous.
get_provider_more_than_two(self, hub, group, project) ==
    LET found == providers(self, hub, group, project) IN
    IF found = <<>> THEN Raise(self, "NoMatchingProvider", {})
    ELSE IF Len(found) > 2 THEN Raise(self, "AmbiguousProvider", {})
    ELSE Return(self, found[1], {})

get_provider(self, hub, group, project) ==
    LET found == providers(self, hub, group, project) IN
    IF found = <<>> THEN Raise(self, "NoMatchingProvider", {})
    ELSE IF Len(found) > 1 THEN Raise(self, "AmbiguousProvider", {})
    ELSE Return(self, found[1], {})

----------------------------------------------------------------------------
(* Account management *)

\* The test of lines 90 and 151: the URL is not an authentication URL.
InvalidAuthUrl(version_info) ==
    ~version_info["new_api"] \/ "api-auth" \notin DOMAIN version_info

\* The credentials of one hub entry: the account's token with the entry's scope.
ProviderCredentials(credentials, hub_info) ==
    [token |-> credentials.token, url |-> SERVICE_URL, hgp |-> hub_info.hgp]

AccountProvider(provider_credentials) == [credentials |-> provider_credentials]

\* Variant: a provider that cannot be built ends the loop.
RECURSIVE PopulateProviders_break(_, _, _, _)
PopulateProviders_break(credentials, user_hubs, i, od) ==
    IF i > Len(user_hubs) THEN [_providers |-> od, error |-> "ok"]
    ELSE LET hub_info == user_hubs[i] IN
         IF hub_info.build = "credentials_error"
         THEN [_providers |-> od, error |-> "CredentialsError"]
         ELSE LET provider_credentials == ProviderCredentials(credentials, hub_info) IN
              IF hub_info.build = "provider_error"
              THEN [_providers |-> od, error |-> "ok"]
              ELSE PopulateProviders_break(credentials, user_hubs, i + 1,
                       SetItem(od, unique_id(provider_credentials),
                               AccountProvider(provider_credentials)))

\* The loop of _initialize_providers from entry i on.
RECURSIVE PopulateProviders(_, _, _, _)
PopulateProviders(credentials, user_hubs, i, od) ==
    IF i > Len(user_hubs) THEN [_providers |-> od, error |-> "ok"]
    ELSE LET hub_info == user_hubs[i] IN
         IF hub_info.build = "credentials_error"
         THEN [_providers |-> od, error |-> "CredentialsError"]
         ELSE LET provider_credentials == ProviderCredentials(credentials, hub_info) IN
              IF hub_info.build = "provider_error"
              THEN PopulateProviders(credentials, user_hubs, i + 1, od)
              ELSE PopulateProviders(credentials, user_hubs, i + 1,
                       SetItem(od, unique_id(provider_credentials),
                               AccountProvider(provider_credentials)))

_initialize_providers(self, credentials, auth) ==
    IF auth.raised THEN [self |-> self, error |-> "AuthError"]
    ELSE LET loop == PopulateProviders(credentials, auth.user_hubs, 1, self._providers) IN
         [self |-> [_credentials |-> Some(credentials), _providers |-> loop._providers],
          error |-> loop.error]

\* The end of enable_account and load_account: the first provider, or None.
FirstProvider(init) ==
    IF init.error # "ok" THEN Raise(init.self, init.error, {"version", "auth"})
    ELSE LET found == providers(init.self, None, None, None) IN
         Return(init.self, IF found = <<>> THEN None ELSE Some(found[1]), {"version", "auth"})

\* Variant: no test for an account already in use.
enable_account_unchecked(self, token, url, server) ==
    LET credentials == Credentials(token, url) IN
    IF server.version.raised THEN Raise(self, "VersionError", {"version"})
    ELSE IF InvalidAuthUrl(server.version.info) THEN Raise(self, "InvalidUrl", {"version"})
    ELSE FirstProvider(_initialize_providers(self, credentials, server.auth))

enable_account(self, token, url, server) ==
    IF self._credentials # None THEN Raise(self, "AlreadyActive", {})
    ELSE LET credentials == Credentials(token, url) IN
         IF server.version.raised THEN Raise(self, "VersionError", {"version"})
         ELSE IF InvalidAuthUrl(server.version.info) THEN Raise(self, "InvalidUrl", {"version"})
         ELSE FirstProvider(_initialize_providers(self, credentials, server.auth))

\* Variant: the providers are kept.
disable_account_keeps_providers(self) ==
    IF self._credentials = None THEN Raise(self, "NotFound", {})
    ELSE Return([_credentials |-> None, _providers |-> self._providers], None, {})

disable_account(self) ==
    IF self._credentials = None THEN Raise(self, "NotFound", {})
    ELSE Return([_credentials |-> None, _providers |-> <<>>], None, {})

\* Variant: of several credentials the first is taken.
load_account_first_of_many(self, credentials_list, server) ==
    IF credentials_list = <<>> THEN Raise(self, "NotFound", {})
    ELSE LET credentials == credentials_list[1] IN
         IF server.version.raised THEN Raise(self, "VersionError", {"version"})
         ELSE IF InvalidAuthUrl(server.version.info) THEN Raise(self, "InvalidUrl", {"version"})
         ELSE LET session == IF self._credentials # None
                             THEN disable_account(self).self
                             ELSE self
              IN FirstProvider(_initialize_providers(session, credentials, server.auth))

\* Variant: the account in use is not disabled first.
load_account_no_disable(self, credentials_list, server) ==
    IF credentials_list = <<>> THEN Raise(self, "NotFound", {})
    ELSE IF Len(credentials_list) > 1 THEN Raise(self, "MultipleFound", {})
    ELSE LET credentials == credentials_list[1] IN
         IF server.version.raised THEN Raise(self, "VersionError", {"version"})
         ELSE IF InvalidAuthUrl(server.version.info) THEN Raise(self, "InvalidUrl", {"version"})
         ELSE FirstProvider(_initialize_providers(self, credentials, server.auth))

load_account(self, credentials_list, server) ==
    IF credentials_list = <<>> THEN Raise(self, "NotFound", {})
    ELSE IF Len(credentials_list) > 1 THEN Raise(self, "MultipleFound", {})
    ELSE LET credentials == credentials_list[1] IN
         IF server.version.raised THEN Raise(self, "VersionError", {"version"})
         ELSE IF InvalidAuthUrl(server.version.info) THEN Raise(self, "InvalidUrl", {"version"})
         ELSE LET session == IF self._credentials # None
                             THEN disable_account(self).self
                             ELSE self
              IN FirstProvider(_initialize_providers(session, credentials, server.auth))

active_account(self) ==
    IF self._credentials = None THEN Return(self, None, {})
    ELSE Return(self, Some([token |-> self._credentials[1].token,
                            url |-> self._credentials[1].url]), {})

----------------------------------------------------------------------------
(* The calls on the session *)

Filters(S) == {None} \cup {Some(x) : x \in S \cup {""}}
HubFilters == Filters({"ibm-q", "hub-x"})  \* "hub-x": a hub of no provider
GroupFilters == {None, Some("open")}
ProjectFilters == {None, Some("lab")}

DiscoveredLists == SeqUpTo(SessionCredentials, MaxDiscovered)

----------------------------------------------------------------------------
(* What a call was given, recorded with the call for the statements below *)

RECURSIVE OkScopes(_)
\* The scopes of a hub list whose construction succeeds, in the list's order.
OkScopes(hs) ==
    IF hs = <<>> THEN <<>>
    ELSE IF Head(hs).build = "ok" THEN <<Head(hs).hgp>> \o OkScopes(Tail(hs))
    ELSE OkScopes(Tail(hs))

RECURSIVE FirstOccurrences(_)
\* A sequence without its repetitions, each element where it first occurs.
FirstOccurrences(q) ==
    IF q = <<>> THEN <<>>
    ELSE LET front == FirstOccurrences(SubSeq(q, 1, Len(q) - 1)) IN
         IF \E i \in 1..Len(front) : front[i] = q[Len(q)] THEN front
         ELSE Append(front, q[Len(q)])

Count(hs, build) == Cardinality({i \in 1..Len(hs) : hs[i].build = build})

\* The remote side's answer in short, as far as the call asked for it: how
\* the version check and the Auth Client went, how many hub entries there
\* were, how many provider constructions failed, whether a scoped credential
\* failed to build, and the scopes that were built, in order.
Answer(server, remote) ==
    IF remote = {} THEN [version |-> "not asked"]
    ELSE IF server.version.raised THEN [version |-> "raised"]
    ELSE IF server.version # ValidVersion THEN [version |-> "invalid"]
    ELSE IF server.auth.raised THEN [version |-> "valid", auth |-> "raised"]
    ELSE LET hs == server.auth.user_hubs IN
         [version |-> "valid", auth |-> "hubs",
          hubs |-> Len(hs),
          skipped |-> Count(hs, "provider_error"),
          credentials_error |-> Count(hs, "credentials_error") > 0,
          built |-> FirstOccurrences(OkScopes(hs))]

Apply(op, args, r, en) ==
    /\ _credentials' = r.self._credentials
    /\ _providers' = r.self._providers
    /\ last' = [op |-> op, args |-> args, was_active |-> _credentials # None,
                outcome |-> r.outcome, value |-> r.value, remote |-> r.remote]
    /\ enabled' = en
    /\ UNCHANGED qiskitrc

Call_enable_account ==
    \E token \in Tokens, url \in SessionUrls, server \in Servers :
        \E r \in {enable_account(Self, token, url, server)} :
        Apply("enable_account",
              [credentials |-> Some(Credentials(token, url)),
               answer |-> Answer(server, r.remote)],
              r, enabled \/ r.outcome = "ok")

Call_disable_account ==
    \E r \in {disable_account(Self)} :
        Apply("disable_account", <<>>, r, enabled /\ r.outcome # "ok")

\* load_account calls disable_account (line 160) when it gets past the
\* version check with an account in use.  It reaches the remote side only
\* with exactly one credential discovered, so an answer is drawn only then.
Call_load_account ==
    \E credentials_list \in DiscoveredLists :
    \E server \in (IF Len(credentials_list) = 1 THEN Servers ELSE {Unreachable}) :
        \E r \in {load_account(Self, credentials_list, server)} :
        LET replaced == _credentials # None /\ "auth" \in r.remote
        IN Apply("load_account",
                 [discovered |-> Len(credentials_list),
                  credentials |-> IF credentials_list = <<>> THEN None
                                  ELSE Some(credentials_list[1]),
                  answer |-> Answer(server, r.remote)],
                 r, enabled /\ ~replaced)

Call_active_account ==
    \E r \in {active_account(Self)} : Apply("active_account", <<>>, r, enabled)

Call_providers ==
    \E hub \in HubFilters, group \in GroupFilters, project \in ProjectFilters :
    \E r \in {Return(Self, providers(Self, hub, group, project), {})} :
        Apply("providers", <<hub, group, project>>, r, enabled)

Call_get_provider ==
    \E hub \in HubFilters, group \in GroupFilters, project \in ProjectFilters :
    \E r \in {get_provider(Self, hub, group, project)} :
        Apply("get_provider", <<hub, group, project>>, r, enabled)

NoCall == [op |-> "__init__", args |-> <<>>, was_active |-> FALSE,
           outcome |-> "ok", value |-> None, remote |-> {}]

Init ==
    /\ _credentials = NewFactory._credentials
    /\ _providers = NewFactory._providers
    /\ qiskitrc = <<>>
    /\ last = NoCall
    /\ enabled = FALSE

Next ==
    \/ Call_enable_account
    \/ Call_disable_account
    \/ Call_load_account
    \/ Call_active_account
    \/ Call_providers
    \/ Call_get_provider

Spec == Init /\ [][Next]_vars

----------------------------------------------------------------------------
(* The credentials file on disk *)

\* Python values a caller may pass as the token.
PyStr(v) == [type |-> "str", v |-> v]
PyNone == [type |-> "NoneType", v |-> "None"]
PyInt(v) == [type |-> "int", v |-> v]

\* Python truthiness of a value.
Falsy(x) == x = PyNone \/ x = PyStr("") \/ x = PyInt("0")

TokenArguments == {PyStr(t) : t \in Tokens} \cup {PyStr(""), PyNone, PyInt("0"), PyInt("7")}
StoredUrls == {QX_AUTH_URL, LEGACY_URL, HUB_URL_1, HUB_URL_2}
StoredCredentials == {Credentials(t, u) : t \in Tokens, u \in StoredUrls}

\* The file holds one section per unique_id().
StoredFiles == {rc \in SeqUpTo(StoredCredentials, MaxStored) :
                   \A i, j \in 1..Len(rc) : unique_id(rc[i]) = unique_id(rc[j]) => i = j}

read_credentials_from_qiskitrc(rc) == rc

\* store_credentials(credentials, overwrite): an existing section is kept
\* unless overwrite is set.
store_credentials(rc, credentials, overwrite) ==
    IF \E i \in 1..Len(rc) : unique_id(rc[i]) = unique_id(credentials)
    THEN IF overwrite
         THEN [i \in 1..Len(rc) |-> IF unique_id(rc[i]) = unique_id(credentials)
                                    THEN credentials ELSE rc[i]]
         ELSE rc
    ELSE Append(rc, credentials)

\* remove_credentials(credentials): the section of the credentials is removed.
remove_credentials(rc, credentials) ==
    SelectSeq(rc, LAMBDA c : unique_id(c) # unique_id(credentials))

StoreRaise(rc, error) == [rc |-> rc, outcome |-> error, value |-> None]
StoreReturn(rc, value) == [rc |-> rc, outcome |-> "ok", value |-> value]

\* Variant: the token is tested before the URL.
save_account_token_first(rc, token, url, overwrite) ==
    IF Falsy(token) \/ token.type # "str" THEN StoreRaise(rc, "InvalidToken")
    ELSE IF url # QX_AUTH_URL THEN StoreRaise(rc, "InvalidUrl")
    ELSE StoreReturn(store_credentials(rc, Credentials(token.v, url), overwrite), None)

save_account(rc, token, url, overwrite) ==
    IF url # QX_AUTH_URL THEN StoreRaise(rc, "InvalidUrl")
    ELSE IF Falsy(token) \/ token.type # "str" THEN StoreRaise(rc, "InvalidToken")
    ELSE StoreReturn(store_credentials(rc, Credentials(token.v, url), overwrite), None)

\* Variant: with several credentials stored the first is deleted.
delete_account_first_of_many(rc) ==
    LET stored_credentials == read_credentials_from_qiskitrc(rc) IN
    IF stored_credentials = <<>> THEN StoreRaise(rc, "NotFound")
    ELSE LET credentials == stored_credentials[1] IN
         IF credentials.url # QX_AUTH_URL THEN StoreRaise(rc, "InvalidUrl")
         ELSE StoreReturn(remove_credentials(rc, credentials), None)

delete_account(rc) ==
    LET stored_credentials == read_credentials_from_qiskitrc(rc) IN
    IF stored_credentials = <<>> THEN StoreRaise(rc, "NotFound")
    ELSE IF Len(stored_credentials) # 1 THEN StoreRaise(rc, "MultipleFound")
    ELSE LET credentials == stored_credentials[1] IN
         IF credentials.url # QX_AUTH_URL THEN StoreRaise(rc, "InvalidUrl")
         ELSE StoreReturn(remove_credentials(rc, credentials), None)

\* The value is the returned dictionary: <<>> is {}.
stored_account(rc) ==
    LET stored_credentials == read_credentials_from_qiskitrc(rc) IN
    IF stored_credentials = <<>> THEN StoreReturn(rc, <<>>)
    ELSE IF Len(stored_credentials) > 1 THEN StoreRaise(rc, "MultipleFound")
    ELSE LET credentials == stored_credentials[1] IN
         IF credentials.url # QX_AUTH_URL THEN StoreRaise(rc, "InvalidUrl")
         ELSE StoreReturn(rc, <<[token |-> credentials.token, url |-> credentials.url]>>)

\* A call on the file: the file it found is kept in the record of the call.
ApplyStore(op, args, r) ==
    /\ qiskitrc' = r.rc
    /\ last' = [op |-> op, args |-> args, was_active |-> _credentials # None,
                outcome |-> r.outcome, value |-> r.value, remote |-> {},
                found |-> qiskitrc]
    /\ UNCHANGED <<_credentials, _providers, enabled>>

Call_save_account ==
    \E token \in TokenArguments, url \in StoredUrls, overwrite \in BOOLEAN :
    \E r \in {save_account(qiskitrc, token, url, overwrite)} :
        ApplyStore("save_account", [token |-> token, url |-> url, overwrite |-> overwrite], r)

Call_delete_account ==
    \E r \in {delete_account(qiskitrc)} : ApplyStore("delete_account", <<>>, r)

Call_stored_account ==
    \E r \in {stored_account(qiskitrc)} : ApplyStore("stored_account", <<>>, r)

InitStorage ==
    /\ _credentials = NewFactory._credentials
    /\ _providers = NewFactory._providers
    /\ qiskitrc \in StoredFiles
    /\ last = NoCall
    /\ enabled = FALSE

NextStorage ==
    \/ Call_save_account
    \/ Call_delete_account
    \/ Call_stored_account

SpecStorage == InitStorage /\ [][NextStorage]_vars

----------------------------------------------------------------------------
(* Statements about the session *)

ProviderKeys(od) == [i \in 1..Len(od) |-> od[i].key]
ProviderList(od) == [i \in 1..Len(od) |-> od[i].provider]

PopulationCalls == {"enable_account", "load_account"}

\* The call reached the Auth Client and was given a hub list.
GotHubList ==
    /\ last.op \in PopulationCalls
    /\ last.args.answer.version = "valid"
    /\ last.args.answer.auth = "hubs"

\* C1: in every reachable state the providers map is non-empty only if a
\* credential is active, whatever calls succeeded or raised before; and after
\* a disable_account that returned, no credential is active and the providers
\* map is empty.
C1_ProvidersOnlyWithCredential ==
    /\ _providers # <<>> => _credentials # None
    /\ (last.op = "disable_account" /\ last.outcome = "ok")
          => (_credentials = None /\ _providers = <<>>)

C1_Witness ==
    /\ last.op = "disable_account"
    /\ last.outcome = "ok"
    /\ last.was_active

\* C2: an enable_account called when an earlier enable_account has returned
\* and disable_account has not run since fails with AlreadyActive, asks the
\* remote side nothing, and leaves the credential and the providers map as
\* they were, for every token, URL and answer of the remote side.
C2_EnableTwiceFails ==
    [][(enabled /\ last'.op = "enable_account")
          => /\ last'.outcome = "AlreadyActive"
             /\ last'.remote = {}
             /\ UNCHANGED <<_credentials, _providers>>]_vars

C2_Witness ==
    /\ enabled
    /\ last.op = "enable_account"
    /\ last.outcome = "AlreadyActive"
    /\ _providers # <<>>

\* C3: load_account fails with NotFound when no credential is discovered and
\* with MultipleFound when more than one is, with or without an account in
\* use; it then asks the remote side nothing and leaves the credential and the
\* providers map as they were.
C3_LoadNeedsExactlyOne ==
    [][(last'.op = "load_account" /\ last'.args.discovered # 1)
          => /\ last'.outcome = IF last'.args.discovered = 0 THEN "NotFound"
                                ELSE "MultipleFound"
             /\ last'.remote = {}
             /\ UNCHANGED <<_credentials, _providers>>]_vars

C3_Witness ==
    /\ last.op = "load_account"
    /\ last.args.discovered > 1
    /\ last.outcome = "MultipleFound"
    /\ last.was_active
    /\ _providers # <<>>

C5_FailedProvidersAreSkipped ==
    (GotHubList /\ ~last.args.answer.credentials_error)
       => /\ last.outcome = "ok"
          /\ _credentials = last.args.credentials
          /\ ProviderKeys(_providers) = last.args.answer.built
          /\ providers(Self, None, None, None) = ProviderList(_providers)
          /\ Len(_providers) <= last.args.answer.hubs - last.args.answer.skipped
          /\ last.value = IF _providers = <<>> THEN None ELSE Some(_providers[1].provider)

\* Three hub entries, one provider construction failed, two providers.
C5_Witness ==
    /\ GotHubList
    /\ last.op = "enable_account"
    /\ last.args.answer.hubs = 3
    /\ last.args.answer.skipped = 1
    /\ ~last.args.answer.credentials_error
    /\ last.outcome = "ok"
    /\ _credentials # None
    /\ Len(providers(Self, None, None, None)) = 2

\* The providers of an OrderedDict whose key equals each of the three filters
\* (hub, group, project) that is supplied, in the dictionary's order.
Matching(od, filters, supplied) ==
    LET Match(entry) ==
            /\ supplied[1] => entry.key.hub = filters[1]
            /\ supplied[2] => entry.key.group = filters[2]
            /\ supplied[3] => entry.key.project = filters[3]
    IN ProviderList(SelectSeq(od, Match))

\* Which filters are supplied: those that are not None, or those that are
\* neither None nor the empty string.
NonNull(filters) == [i \in 1..3 |-> filters[i] # None]
NonEmpty(filters) == [i \in 1..3 |-> filters[i] # None /\ filters[i] # Some("")]

\* C6 as stated: providers(hub, group, project) returns, in insertion order,
\* exactly the providers whose key equals every filter that is not None, and
\* leaves the session as it was.
C6_Original ==
    [][last'.op = "providers"
          => /\ last'.value = Matching(_providers, last'.args, NonNull(last'.args))
             /\ UNCHANGED <<_credentials, _providers>>]_vars

\* C6, amended: providers(hub, group, project) returns, in insertion order,
\* exactly the providers whose key equals every filter that is neither None
\* nor the empty string (an empty filter is no filter); without such a filter
\* it returns all of them; the session is left as it was.
C6_ProvidersFilter ==
    [][last'.op = "providers"
          => /\ last'.value = Matching(_providers, last'.args, NonEmpty(last'.args))
             /\ (\A i \in 1..3 : ~NonEmpty(last'.args)[i])
                   => last'.value = ProviderList(_providers)
             /\ UNCHANGED <<_credentials, _providers>>]_vars

C6_Witness ==
    /\ last.op = "providers"
    /\ last.args[1] = Some("")
    /\ last.args[2] = Some("open")
    /\ Len(_providers) = 2
    /\ Len(last.value) = 1

\* C7: get_provider(hub, group, project) fails with NoMatchingProvider when
\* no provider matches the filters and with AmbiguousProvider when two or
\* more do; it returns only when exactly one matches, and returns that one.
C7_GetProviderUnique ==
    last.op = "get_provider"
       => LET matches == Matching(_providers, last.args, NonEmpty(last.args)) IN
          /\ matches = <<>> => last.outcome = "NoMatchingProvider"
          /\ Len(matches) >= 2 => last.outcome = "AmbiguousProvider"
          /\ Len(matches) = 1 => (last.outcome = "ok" /\ last.value = matches[1])
          /\ last.outcome \in {"ok", "NoMatchingProvider", "AmbiguousProvider"}

C7_Witness ==
    /\ last.op = "get_provider"
    /\ last.args = <<None, None, None>>
    /\ Len(_providers) = 2
    /\ last.outcome = "AmbiguousProvider"

\* C10 as stated: an enable_account that raised for an invalid URL, or for
\* an error of the version client, of the Auth Client or of building a
\* scoped credential, leaves no credential in use and no provider.
C10_FailedEnableLeavesNoAccount ==
    (last.op = "enable_account"
        /\ last.outcome \in {"InvalidUrl", "VersionError", "AuthError", "CredentialsError"})
       => (_credentials = None /\ _providers = <<>>)

----------------------------------------------------------------------------
(* Statements about the credentials file *)

\* C8: save_account with a URL other than QX_AUTH_URL fails with InvalidUrl
\* whatever the token (valid, empty, not a string), and the file is left as
\* it was.
C8_SaveChecksUrlFirst ==
    (last.op = "save_account" /\ last.args.url # QX_AUTH_URL)
       => (last.outcome = "InvalidUrl" /\ qiskitrc = last.found)

C8_Witness ==
    /\ last.op = "save_account"
    /\ last.args.url # QX_AUTH_URL
    /\ last.args.token = PyInt("7")
    /\ last.outcome = "InvalidUrl"
    /\ qiskitrc # <<>>

\* C9 as stated: delete_account and stored_account both fail when the file
\* holds no credential or more than one.
C9_Original ==
    (last.op \in {"delete_account", "stored_account"} /\ Len(last.found) # 1)
       => (last.outcome # "ok" /\ qiskitrc = last.found)

\* C9, amended: delete_account fails with NotFound on an empty file and with
\* MultipleFound on more than one credential; stored_account fails with
\* MultipleFound on more than one credential and returns the empty
\* dictionary, without failing, on an empty file.  delete_account removes the
\* credential, and stored_account returns its token and URL, only when exactly
\* one credential is stored and its URL is QX_AUTH_URL.  A call that fails
\* leaves the file as it was, and stored_account never changes it.
C9_ExactlyOneStored ==
    last.op \in {"delete_account", "stored_account"}
       => LET one == Len(last.found) = 1 /\ last.found[1].url = QX_AUTH_URL IN
          /\ Len(last.found) > 1 => last.outcome = "MultipleFound"
          /\ (last.found = <<>> /\ last.op = "delete_account") => last.outcome = "NotFound"
          /\ (last.found = <<>> /\ last.op = "stored_account")
                => (last.outcome = "ok" /\ last.value = <<>>)
          /\ (Len(last.found) = 1 /\ ~one) => last.outcome = "InvalidUrl"
          /\ one => last.outcome = "ok"
          /\ (one /\ last.op = "delete_account") => qiskitrc = <<>>
          /\ (one /\ last.op = "stored_account")
                => last.value = <<[token |-> last.found[1].token, url |-> QX_AUTH_URL]>>
          /\ (last.outcome # "ok" \/ last.op = "stored_account") => qiskitrc = last.found

C9_Witness ==
    /\ last.op = "stored_account"
    /\ last.found = <<>>
    /\ last.outcome = "ok"
    /\ last.value = <<>>

====
